---- MODULE Spec2Model ----
(***************************************************************************)
(* Model Lifecycle Manager of plugins/llm-service: ModelRegistry,          *)
(* ModelDownloader, ModelLoader and ModelManager (src/model_manager).      *)
(*                                                                         *)
(* Scheduling model.  Every operation is an asyncio coroutine run on one   *)
(* event loop.  A coroutine runs without interleaving until it suspends:   *)
(*   - await asyncio.to_thread(...)  always suspends;                      *)
(*   - acquiring an asyncio.Lock / asyncio.Semaphore suspends only when    *)
(*     the primitive is not available (an uncontended acquire returns at   *)
(*     once);                                                              *)
(*   - awaiting another coroutine of these classes does not suspend by     *)
(*     itself.                                                             *)
(* One action of the model is therefore one run of a task from a           *)
(* suspension point (or from the call) to the next suspension point (or    *)
(* to the return / raise).  pc[p] names the suspension point task p is at. *)
(***************************************************************************)
EXTENDS Integers, Sequences, FiniteSets, TLC

\* ------------------------------------------------------------------ bounds
NumModels == 3          \* model ids 1..NumModels of the sequential runs
NumConcModels == 2      \* model ids 1..NumConcModels of the concurrent runs
NumProcs == 2           \* concurrent client tasks of the Loader / Manager
NumDlProcs == 3         \* concurrent client tasks of the Downloader
MaxClock == 2           \* datetime.utcnow() takes the values 1..MaxClock
MaxCapacity == 2        \* max_loaded_models is drawn from 0..MaxCapacity
MaxSlots == 2           \* max_concurrent is drawn from 1..MaxSlots
MaxInference == 1       \* inference_count is capped (guard of generate)
ConcCapacity == 1       \* max_loaded_models of the concurrent Manager runs
ConcSlots == 1          \* max_concurrent of the concurrent Manager runs

Models == 1..NumModels
AllProcs == 1..(IF NumProcs > NumDlProcs THEN NumProcs ELSE NumDlProcs)
Free == 0               \* asyncio.Lock not held
None == 0               \* Python None for a timestamp / an absent owner

VARIABLES
    procs,              \* the client tasks of this run
    ids,                \* the model ids the clients of this run use
    max_loaded_models,  \* ModelLoader.max_loaded_models
    max_concurrent,     \* ModelDownloader.max_concurrent
    now,                \* value datetime.utcnow() returns
    loaded_models,      \* ModelLoader._loaded_models (dict, insertion order)
    loader_lock,        \* ModelLoader._lock: Free or the task holding it
    models,             \* ModelRegistry._models: id -> record or NoRecord
    semaphore,          \* ModelDownloader._download_semaphore value
    active_tasks,       \* ModelDownloader._active_tasks: id -> owning task
    task,               \* per client task: its DownloadTask (status, cancel_event,
                        \* progress.error)
    pc,                 \* per client task: suspension point
    call,               \* per client task: the call in progress
    ret,                \* the call that returned or raised in the last step
    disk                \* content of the registry file

vars == << procs, ids, max_loaded_models, max_concurrent, now, loaded_models,
           loader_lock, models, semaphore, active_tasks, task, pc, call,
           ret, disk >>

\* ret names the call, if any, that ended in the step just taken, with how
\* it ended: it returned ("ok", "true", "false", a count) or raised
\* ("raised"; "not_loaded" for the ValueError of ModelLoader.generate).
NoRet == [p |-> 0, out |-> "none"]

\* The whole state as one record: handlers are functions from state to state.
\* fs and utcnow are what a Registry call meets: how the file system takes
\* its write, and the time datetime.utcnow() gives it for a record's
\* last_used (None in the runs that do not follow the records' timestamps,
\* where last_used is therefore None throughout).
State ==
    [ now |-> now, max_loaded_models |-> max_loaded_models,
      loaded_models |-> loaded_models, loader_lock |-> loader_lock,
      models |-> models, semaphore |-> semaphore,
      active_tasks |-> active_tasks, task |-> task, pc |-> pc,
      call |-> call, ret |-> NoRet, disk |-> disk, fs |-> "ok",
      utcnow |-> None, crashed |-> FALSE ]

\* ------------------------------------------------------------- client tasks
\* handle: the LoadedModel a generate holds ("indexed": the one in the index,
\* "detached": replaced in the index, "freed": unloaded); loaded_at: the
\* timestamp a load took before it waits for the lock to insert; victim: the
\* id _evict_if_needed passed to unload; files: what delete_model does with
\* the files ("keep": delete_files is false, "delete": rmtree succeeds or
\* finds nothing, "fail": rmtree raises); pre: whether hot_swap was called
\* with the current model resident and the new one downloaded.
NoCall ==
    [op |-> "none", id |-> 0, id2 |-> 0, force |-> FALSE, files |-> "keep",
     handle |-> "none", loaded_at |-> None, victim |-> 0, pre |-> FALSE]
NoTask == [status |-> "none", cancel_event |-> FALSE, error |-> "none"]

\* A call returns ("ok", "true", "false") or raises ("raised").  The
\* DownloadTask of a download_model call is a local of that call; the one
\* passed to ModelDownloader.download stays with its caller.
Finish(S, p, out) ==
    [S EXCEPT !.pc[p] = "idle",
              !.call[p] = NoCall,
              !.ret = [p |-> p, out |-> out],
              !.task[p] = IF S.call[p].op = "download" THEN @ ELSE NoTask]

\* A call starts: the DownloadTask of the caller's previous call is dropped.
Enter(S, p, c) == [S EXCEPT !.call[p] = c, !.task[p] = NoTask]

Suspend(S, p, at) == [S EXCEPT !.pc[p] = at]

\* ---------------------------------------------------------------- Registry
\* LocalModelInfo, reduced to status, local_path ("" or the directory),
\* error_message and last_used.  The sizes and tags of a record, like its
\* timestamps, are written and never read back by the Registry, the Loader,
\* the Downloader or the Manager.
NoRecord ==
    [status |-> "absent", local_path |-> "", error_message |-> "none",
     last_used |-> None]

Known(S, id) == S.models[id].status # "absent"

\* ModelStatus: the enum members and their values, the strings of the file.
StatusValue(status) ==
    CASE status = "DOWNLOADING" -> "downloading"
      [] status = "READY" -> "ready"
      [] status = "LOADING" -> "loading"
      [] status = "LOADED" -> "loaded"
      [] status = "ERROR" -> "error"
      [] OTHER -> "deleted"

StatusValues ==
    {"downloading", "ready", "loading", "loaded", "error", "deleted"}

\* Mutant: every value read back is the default status.
ModelStatus_default(value) == "READY"

\* ModelStatus(value): the member of a value (ValueError on any other
\* string, which from_dict's caller handles).
ModelStatus(value) ==
    CASE value = "downloading" -> "DOWNLOADING"
      [] value = "ready" -> "READY"
      [] value = "loading" -> "LOADING"
      [] value = "loaded" -> "LOADED"
      [] value = "error" -> "ERROR"
      [] OTHER -> "DELETED"

\* LocalModelInfo.to_dict, as json.dump writes it: the status by its value,
\* None as null.
to_dict(rec) ==
    [status |-> StatusValue(rec.status), local_path |-> rec.local_path,
     error_message |-> IF rec.error_message = "none" THEN "null"
                       ELSE rec.error_message,
     last_used |-> rec.last_used]

\* LocalModelInfo.from_dict of what json.load read.
from_dict(data) ==
    [status |-> ModelStatus(data.status), local_path |-> data.local_path,
     error_message |-> IF data.error_message = "null" THEN "none"
                       ELSE data.error_message,
     last_used |-> data.last_used]

\* The registry file: missing, a whole JSON document (the "models" object,
\* NoDict for an id it does not hold), or the truncated text an interrupted
\* write leaves.
NoDict ==
    [status |-> "", local_path |-> "", error_message |-> "", last_used |-> None]
NoFile == [kind |-> "missing", models |-> [id \in Models |-> NoDict]]
Truncated == [kind |-> "truncated", models |-> [id \in Models |-> NoDict]]

\* The document _save_registry builds from the map.
Snapshot(map) ==
    [kind |-> "json",
     models |-> [id \in Models |->
                   IF map[id].status = "absent" THEN NoDict
                   ELSE to_dict(map[id])]]

\* Mutant: _load_registry keeps the records it could read.
load_registry_partial(file) ==
    IF file.kind # "json" THEN [id \in Models |-> NoRecord]
    ELSE [id \in Models |->
            IF \/ file.models[id] = NoDict
               \/ file.models[id].status \notin StatusValues
            THEN NoRecord
            ELSE from_dict(file.models[id])]

\* ModelRegistry._load_registry: the records of the file, or the empty map
\* when there is no file or reading it raises.
load_registry(file) ==
    IF \/ file.kind # "json"
       \/ \E id \in Models : /\ file.models[id] # NoDict
                              /\ file.models[id].status \notin StatusValues
    THEN [id \in Models |-> NoRecord]
    ELSE [id \in Models |->
            IF file.models[id] = NoDict THEN NoRecord
            ELSE from_dict(file.models[id])]

\* ModelRegistry._save_registry: open(file, "w") and json.dump, every
\* exception logged and swallowed.  fs says how the write of this call
\* goes, "ok" unless the call says otherwise: "ok";
\* "open_fails" (open raises, the file is untouched); "write_fails" (the
\* file was truncated by open and the dump raises part-way); "crash" (the
\* process is killed while the dump is writing).
save_registry(S) ==
    IF S.crashed THEN S
    ELSE CASE S.fs = "ok" -> [S EXCEPT !.disk = Snapshot(S.models)]
           [] S.fs = "open_fails" -> S
           [] S.fs = "write_fails" -> [S EXCEPT !.disk = Truncated]
           [] OTHER -> [S EXCEPT !.disk = Truncated, !.crashed = TRUE]

\* ModelRegistry.register: upsert of the whole record, then the save.
register(S, id, rec) == save_registry([S EXCEPT !.models[id] = rec])

\* Mutant: update_status changes the map and leaves the file for later.
update_status_unsaved(S, id, status, error_message) ==
    IF Known(S, id)
    THEN [S EXCEPT !.models[id].status = status,
                   !.models[id].error_message = error_message,
                   !.models[id].last_used =
                       IF status = "LOADED" THEN S.utcnow ELSE @]
    ELSE S

\* Mutant: update_status stamps last_used whatever the new status is.
update_status_stamps(S, id, status, error_message) ==
    IF Known(S, id)
    THEN save_registry([S EXCEPT !.models[id].status = status,
                                 !.models[id].error_message = error_message,
                                 !.models[id].last_used = S.utcnow])
    ELSE S

\* ModelRegistry.update_status: no-op on an unknown id; status and
\* error_message are overwritten, last_used is set to the current time when
\* the status is LOADED, the other fields are kept, then the save.
update_status(S, id, status, error_message) ==
    IF Known(S, id)
    THEN save_registry([S EXCEPT !.models[id].status = status,
                                 !.models[id].error_message = error_message,
                                 !.models[id].last_used =
                                     IF status = "LOADED" THEN S.utcnow ELSE @])
    ELSE S

\* ModelRegistry.remove: deletes the record only, then the save; nothing is
\* written for an id that is not there.
remove(S, id) ==
    IF Known(S, id) THEN save_registry([S EXCEPT !.models[id] = NoRecord])
    ELSE S

\* ModelRegistry.cleanup_failed: drops every ERROR record, and saves if
\* there was one.
Failed(S) == {id \in Models : S.models[id].status = "ERROR"}

\* Mutant: cleanup_failed drops every record that is not usable.
cleanup_failed_unusable(S) ==
    IF Failed(S) = {} THEN S
    ELSE save_registry(
           [S EXCEPT !.models = [id \in Models |->
                                   IF S.models[id].status
                                        \notin {"READY", "LOADED"}
                                   THEN NoRecord
                                   ELSE S.models[id]]])

cleanup_failed(S) ==
    IF Failed(S) = {} THEN S
    ELSE save_registry(
           [S EXCEPT !.models = [id \in Models |->
                                   IF id \in Failed(S) THEN NoRecord
                                   ELSE S.models[id]]])

\* Mutant: get_model_path gives the path of any record.
get_model_path_any(S, id) ==
    IF Known(S, id) THEN S.models[id].local_path ELSE "None"

\* ModelRegistry.get_model_path: the record's local_path as a Path, or
\* None ("None" here; a record's local_path is "" or "dir").
get_model_path(S, id) ==
    IF S.models[id].status \in {"READY", "LOADED"}
    THEN S.models[id].local_path ELSE "None"

\* ------------------------------------------------------------------ Loader
\* LoadedModel.__init__: last_used starts as loaded_at, inference_count as 0.
LoadedModel(id, loaded_at) ==
    [model_id |-> id, loaded_at |-> loaded_at, last_used |-> loaded_at,
     inference_count |-> 0]

IndexOf(index, id) ==
    IF \E i \in 1..Len(index) : index[i].model_id = id
    THEN CHOOSE i \in 1..Len(index) : index[i].model_id = id
    ELSE 0

\* ModelLoader.is_loaded
is_loaded(S, id) == IndexOf(S.loaded_models, id) # 0

Resident(S) == {S.loaded_models[i].model_id : i \in 1..Len(S.loaded_models)}

RemoveAt(index, i) ==
    [j \in 1..(Len(index) - 1) |-> IF j < i THEN index[j] ELSE index[j + 1]]

\* dict.__setitem__: a present key keeps its place, a new key goes last.
SetItem(index, e) ==
    IF IndexOf(index, e.model_id) # 0
    THEN [index EXCEPT ![IndexOf(index, e.model_id)] = e]
    ELSE Append(index, e)

\* Mutant: among the entries with the least last_used, the last inserted.
lru_model_last_tie(index) ==
    CHOOSE i \in 1..Len(index) :
        /\ \A j \in 1..Len(index) : index[i].last_used <= index[j].last_used
        /\ \A j \in (i + 1)..Len(index) :
              index[j].last_used > index[i].last_used

\* min(values, key=last_used): the first entry, in dict order, with the least
\* last_used (ISO-8601 strings of one format compare as the instants do).
lru_model(index) ==
    CHOOSE i \in 1..Len(index) :
        /\ \A j \in 1..Len(index) : index[i].last_used <= index[j].last_used
        /\ \A j \in 1..(i - 1) : index[j].last_used > index[i].last_used

\* The calls of generate that hold the LoadedModel the index has for id.
Holders(S, id) ==
    {q \in DOMAIN S.call : S.call[q].id = id /\ S.call[q].handle = "indexed"}

MarkHolders(S, id, as) ==
    [S EXCEPT !.call = [q \in DOMAIN @ |->
        IF q \in Holders(S, id) THEN [@[q] EXCEPT !.handle = as] ELSE @[q]]]

\* Mutant: unload leaves the entry in the index.
unload_locked_keeps(S, id) == S

\* The body of ModelLoader.unload, run with the lock held: pop the entry and
\* delete its model, tokenizer and config attributes.
unload_locked(S, id) ==
    IF is_loaded(S, id)
    THEN [MarkHolders(S, id, "freed")
            EXCEPT !.loaded_models = RemoveAt(@, IndexOf(@, id))]
    ELSE S

\* Mutant: the loop condition with > for >=.
at_capacity_strict(S) == Len(S.loaded_models) > S.max_loaded_models

\* The loop condition of _evict_if_needed.
at_capacity(S) == Len(S.loaded_models) >= S.max_loaded_models

\* ModelLoader._evict_if_needed, called by load with the lock held by p.
\* min() of an empty index raises ValueError; otherwise the call of unload
\* has to acquire the lock p itself holds (asyncio.Lock is not reentrant) and
\* so suspends.  pc[p] tells load how the call ended.
evict_if_needed(S, p) ==
    IF at_capacity(S)
    THEN IF Len(S.loaded_models) = 0
         THEN Suspend(S, p, "raise_ValueError")
         ELSE Suspend(S, p, "lock_evict")
    ELSE Suspend(S, p, "returned")

\* _evict_if_needed after its call of unload got the lock: unload pops and
\* releases the lock, so every later unload of the loop acquires it at once.
RECURSIVE evict_loop(_)
evict_loop(S) ==
    IF at_capacity(S) /\ Len(S.loaded_models) > 0
    THEN evict_loop(
           unload_locked(S, S.loaded_models[lru_model(S.loaded_models)].model_id))
    ELSE S

\* The id a load of task p is for.
LoadId(S, p) == IF S.call[p].op = "hot_swap" THEN S.call[p].id2 ELSE S.call[p].id

\* Mutant: generate loads a non-resident id.
generate_loads(S, p) ==
    LET i == IndexOf(S.loaded_models, S.call[p].id) IN
    IF i = 0
    THEN Suspend([S EXCEPT !.loaded_models =
                     Append(@, LoadedModel(S.call[p].id, S.now)),
                           !.call[p].handle = "indexed"], p, "infer")
    ELSE Suspend([S EXCEPT !.loaded_models[i].last_used = S.now,
                           !.loaded_models[i].inference_count = @ + 1,
                           !.call[p].handle = "indexed"], p, "infer")

\* Mutant: generate counts the use and leaves last_used as it is.
generate_keeps_last_used(S, p) ==
    LET i == IndexOf(S.loaded_models, S.call[p].id) IN
    IF i = 0
    THEN Finish(S, p, "not_loaded")
    ELSE Suspend([S EXCEPT !.loaded_models[i].inference_count = @ + 1,
                           !.call[p].handle = "indexed"], p, "infer")

\* ModelLoader.generate up to the inference thread: a non-resident id raises
\* ValueError; otherwise update_usage, then await to_thread(model.generate).
generate(S, p) ==
    LET i == IndexOf(S.loaded_models, S.call[p].id) IN
    IF i = 0
    THEN Finish(S, p, "not_loaded")
    ELSE Suspend([S EXCEPT !.loaded_models[i].last_used = S.now,
                           !.loaded_models[i].inference_count = @ + 1,
                           !.call[p].handle = "indexed"], p, "infer")

\* ModelLoader.generate after the inference thread: decode reads
\* loaded.tokenizer, which unload has deleted from a freed LoadedModel.
generate_done(S, p, ok) ==
    IF S.call[p].handle = "freed"
    THEN Finish(S, p, "raised")
    ELSE IF ok THEN Finish(S, p, "ok")
    ELSE Finish(S, p, "raised")

\* ModelManager.load_model returned or raised, inside generate or hot_swap or
\* as the call itself.
ret_load_model(S, p, ok) ==
    IF ok
    THEN IF S.call[p].op = "generate" THEN generate(S, p)
         ELSE Finish(S, p, "ok")
    ELSE Finish(S, p, "raised")

\* Mutant: a failed load marks the record ERROR.
ret_load_marks_error(S, p, ok) ==
    IF S.call[p].op = "loader_load"
    THEN Finish(S, p, IF ok THEN "ok" ELSE "raised")
    ELSE IF ok
    THEN ret_load_model(update_status(S, LoadId(S, p), "LOADED", "none"),
                        p, TRUE)
    ELSE ret_load_model(update_status(S, LoadId(S, p), "ERROR", "error"),
                        p, FALSE)

\* ModelLoader.load returned or raised: ModelManager.load_model sets LOADED,
\* or reverts to READY with the error text, and re-raises.
ret_load(S, p, ok) ==
    IF S.call[p].op = "loader_load"
    THEN Finish(S, p, IF ok THEN "ok" ELSE "raised")
    ELSE IF ok
    THEN ret_load_model(update_status(S, LoadId(S, p), "LOADED", "none"),
                        p, TRUE)
    ELSE ret_load_model(update_status(S, LoadId(S, p), "READY", "error"),
                        p, FALSE)

\* ModelLoader.load, the second critical section: the index insert.
insert(S, p, loaded_at) ==
    LET id == LoadId(S, p)
        T == IF is_loaded(S, id) THEN MarkHolders(S, id, "detached") ELSE S
    IN ret_load([T EXCEPT !.loaded_models =
                     SetItem(@, LoadedModel(id, loaded_at))], p, TRUE)

\* ModelLoader.load after the weight load: the LoadedModel takes its
\* loaded_at, then the lock is acquired for the insert.
load_done(S, p, ok) ==
    IF ~ok THEN ret_load(S, p, FALSE)
    ELSE IF S.loader_lock # Free
    THEN Suspend([S EXCEPT !.call[p].loaded_at = S.now], p, "lock_insert")
    ELSE insert(S, p, S.now)

\* Mutant: load makes room before it looks for the id in the index.
load_locked_evicts_first(S, p) ==
    LET E == evict_if_needed(S, p) IN
    CASE E.pc[p] = "raise_ValueError" -> ret_load(S, p, FALSE)
      [] E.pc[p] = "lock_evict" ->
           [E EXCEPT !.loader_lock = p,
                     !.call[p].victim =
                         S.loaded_models[lru_model(S.loaded_models)].model_id]
      [] OTHER -> IF is_loaded(S, LoadId(S, p)) THEN ret_load(S, p, TRUE)
                  ELSE Suspend(S, p, "weights")

\* Mutant: load keeps the lock while the weights are loaded.
load_locked_holds(S, p) ==
    IF is_loaded(S, LoadId(S, p)) THEN ret_load(S, p, TRUE)
    ELSE LET E == evict_if_needed(S, p) IN
         CASE E.pc[p] = "raise_ValueError" -> ret_load(S, p, FALSE)
           [] E.pc[p] = "lock_evict" ->
                [E EXCEPT !.loader_lock = p,
                          !.call[p].victim =
                              S.loaded_models[lru_model(S.loaded_models)].model_id]
           [] OTHER -> Suspend([S EXCEPT !.loader_lock = p], p, "weights")

\* ModelLoader.load, the first critical section, with the lock free: a
\* resident id is returned as it is; otherwise _evict_if_needed runs under
\* the lock, and the weight load starts after the lock is released.
load_locked(S, p) ==
    IF is_loaded(S, LoadId(S, p)) THEN ret_load(S, p, TRUE)
    ELSE LET E == evict_if_needed(S, p) IN
         CASE E.pc[p] = "raise_ValueError" -> ret_load(S, p, FALSE)
           [] E.pc[p] = "lock_evict" ->
                [E EXCEPT !.loader_lock = p,
                          !.call[p].victim =
                              S.loaded_models[lru_model(S.loaded_models)].model_id]
           [] OTHER -> Suspend(S, p, "weights")

\* ModelLoader.load from its call.
load(S, p) ==
    IF S.loader_lock # Free THEN Suspend(S, p, "lock_load")
    ELSE load_locked(S, p)

\* ModelLoader.load resumed inside _evict_if_needed, the lock acquired by
\* its call of unload: unload pops the victim and releases the lock, the
\* loop goes on, and leaving load's own critical section then releases a
\* lock that is not held (RuntimeError).
evict_resumed(S, p) ==
    ret_load(evict_loop(unload_locked([S EXCEPT !.call[p].victim = 0],
                                      S.call[p].victim)),
             p, FALSE)

\* -------------------------------------------------------------- Downloader
\* ModelManager.download_model's second half: the READY record.
ReadyRecord ==
    [status |-> "READY", local_path |-> "dir", error_message |-> "none",
     last_used |-> None]

\* ModelManager.download_model's placeholder record.
DownloadingRecord ==
    [status |-> "DOWNLOADING", local_path |-> "", error_message |-> "none",
     last_used |-> None]

\* ModelManager.load_model from the status update on: LOADING, then load.
load_model_load(S, p) ==
    load(update_status(S, LoadId(S, p), "LOADING", "none"), p)

\* ModelManager.download_model returned or raised, inside load_model or as
\* the call itself.  load_model calls it outside its try block.
ret_download_model(S, p, ok) ==
    IF S.call[p].op = "download_model"
    THEN Finish(S, p, IF ok THEN "ok" ELSE "raised")
    ELSE IF ok THEN load_model_load(S, p)
    ELSE ret_load_model(S, p, FALSE)

\* Mutant: a failed download re-raises without marking the record.
ret_download_unmarked(S, p, ok) ==
    IF S.call[p].op = "download"
    THEN Finish(S, p, IF ok THEN "ok" ELSE "raised")
    ELSE IF ok THEN Suspend([S EXCEPT !.task[p] = NoTask], p, "dl_info")
    ELSE ret_download_model(S, p, FALSE)

\* ModelDownloader.download returned or raised: download_model goes on to
\* get_model_info (a thread), or marks ERROR and re-raises.
ret_download(S, p, ok) ==
    IF S.call[p].op = "download"
    THEN Finish(S, p, IF ok THEN "ok" ELSE "raised")
    ELSE IF ok THEN Suspend([S EXCEPT !.task[p] = NoTask], p, "dl_info")
    ELSE ret_download_model(update_status(S, LoadId(S, p), "ERROR", "error"),
                            p, FALSE)

\* ModelManager.download_model after get_model_info (whose failure is
\* swallowed): the size of the files is summed, which may raise, and the
\* READY record is registered.
download_model_done(S, p, ok) ==
    IF ok
    THEN ret_download_model(register(S, LoadId(S, p), ReadyRecord),
                            p, TRUE)
    ELSE ret_download_model(update_status(S, LoadId(S, p), "ERROR", "error"),
                            p, FALSE)

\* ModelDownloader.download with a slot acquired: the task enters
\* _active_tasks, becomes DOWNLOADING, and snapshot_download runs in a thread.
download_acquired(S, p) ==
    Suspend([S EXCEPT !.semaphore = @ - 1,
                      !.active_tasks[LoadId(S, p)] = p,
                      !.task[p].status = "DOWNLOADING"], p, "transfer")

\* Mutant: download takes a slot without looking at the semaphore.
download_unchecked(S, p) == download_acquired(S, p)

\* Mutant: a transfer that raises keeps its slot.
download_done_leaks(S, p, ok) ==
    ret_download([S EXCEPT !.task[p].status =
                               IF ok THEN "COMPLETED" ELSE "FAILED",
                           !.active_tasks[LoadId(S, p)] = None,
                           !.semaphore = IF ok THEN @ + 1 ELSE @],
                 p, ok)

\* ModelDownloader.download from its call: the slot.
download(S, p) ==
    IF S.semaphore > 0 THEN download_acquired(S, p)
    ELSE Suspend(S, p, "sem_wait")

\* Mutant: a transfer that raises is logged and download returns.
download_done_swallows(S, p, ok) ==
    ret_download([S EXCEPT !.task[p].status =
                               IF ok THEN "COMPLETED" ELSE "FAILED",
                           !.task[p].error = IF ok THEN @ ELSE "error",
                           !.active_tasks[LoadId(S, p)] = None,
                           !.semaphore = @ + 1],
                 p, TRUE)

\* ModelDownloader.download after the transfer thread: COMPLETED or FAILED
\* is written to the task, the finally block pops the id from _active_tasks,
\* and the slot is released.
download_done(S, p, ok) ==
    ret_download([S EXCEPT !.task[p].status =
                               IF ok THEN "COMPLETED" ELSE "FAILED",
                           !.task[p].error = IF ok THEN @ ELSE "error",
                           !.active_tasks[LoadId(S, p)] = None,
                           !.semaphore = @ + 1],
                 p, ok)

\* ModelDownloader.cancel: only a task in _active_tasks can be cancelled.
cancel(S, id) ==
    IF S.active_tasks[id] # None
    THEN [S EXCEPT !.task[S.active_tasks[id]].status = "CANCELLED",
                   !.task[S.active_tasks[id]].cancel_event = TRUE]
    ELSE S

\* ----------------------------------------------------------------- Manager
\* Mutant: no short-circuit, every call downloads.
download_model_always(S, p) ==
    download(
      [register(S, LoadId(S, p), DownloadingRecord)
         EXCEPT !.task[p] = [NoTask EXCEPT !.status = "PENDING"]],
      p)

\* Mutant: the download starts with no placeholder registered.
download_model_unregistered(S, p) ==
    LET id == LoadId(S, p) IN
    IF Known(S, id) /\ S.models[id].status = "READY" /\ ~S.call[p].force
    THEN ret_download_model(S, p, TRUE)
    ELSE download(
           [S EXCEPT !.task[p] = [NoTask EXCEPT !.status = "PENDING"]],
           p)

\* ModelManager.download_model from its call: the short-circuit on a READY
\* record without force, else the DOWNLOADING placeholder and the download.
download_model(S, p) ==
    LET id == LoadId(S, p) IN
    IF Known(S, id) /\ S.models[id].status = "READY" /\ ~S.call[p].force
    THEN ret_download_model(S, p, TRUE)
    ELSE download(
           [register(S, id, DownloadingRecord)
              EXCEPT !.task[p] = [NoTask EXCEPT !.status = "PENDING"]],
           p)

\* Mutant: load_model downloads only for an id the Registry does not know.
load_model_if_unknown(S, p) ==
    IF ~Known(S, LoadId(S, p)) THEN download_model(S, p)
    ELSE load_model_load(S, p)

\* ModelManager.load_model from its call: download first unless the record
\* is READY or LOADED.
load_model(S, p) ==
    LET id == LoadId(S, p) IN
    IF ~Known(S, id) \/ S.models[id].status \notin {"READY", "LOADED"}
    THEN download_model(S, p)
    ELSE load_model_load(S, p)

\* Mutant: delete_model removes the record before it deletes the files.
delete_model_files_record_first(S, p) ==
    Finish(remove(S, S.call[p].id), p,
           IF S.call[p].files = "fail" THEN "raised"
           ELSE IF Known(S, S.call[p].id) THEN "true" ELSE "false")

\* ModelManager.delete_model after the unload: the files, then the record.
delete_model_files(S, p) ==
    IF S.call[p].files = "fail" THEN Finish(S, p, "raised")
    ELSE Finish(remove(S, S.call[p].id), p,
                IF Known(S, S.call[p].id) THEN "true" ELSE "false")

\* Mutant: unload_model leaves the Registry status as it is.
ret_unload_keeps_status(S, p, result) ==
    LET op == S.call[p].op
        id == S.call[p].id
        U == IF result THEN update_status(S, id, "READY", "none") ELSE S
    IN CASE op \in {"loader_unload", "unload_model"} ->
                Finish(S, p, IF result THEN "true" ELSE "false")
         [] op = "hot_swap" -> load_model(U, p)
         [] OTHER -> delete_model_files(S, p)

\* ModelLoader.unload returned: unload_model and hot_swap set READY when it
\* returned true; hot_swap then loads the new model; delete_model goes on.
ret_unload(S, p, result) ==
    LET op == S.call[p].op
        id == S.call[p].id
        U == IF result THEN update_status(S, id, "READY", "none") ELSE S
    IN CASE op = "loader_unload" ->
                Finish(S, p, IF result THEN "true" ELSE "false")
         [] op = "unload_model" ->
                Finish(U, p, IF result THEN "true" ELSE "false")
         [] op = "hot_swap" -> load_model(U, p)
         [] OTHER -> delete_model_files(S, p)

\* ModelLoader.unload from its call.
unload(S, p) ==
    IF S.loader_lock # Free THEN Suspend(S, p, "lock_unload")
    ELSE ret_unload(unload_locked(S, S.call[p].id), p, is_loaded(S, S.call[p].id))

\* ModelManager.delete_model from its call.
delete_model(S, p) ==
    IF is_loaded(S, S.call[p].id) THEN unload(S, p)
    ELSE delete_model_files(S, p)

\* Mutant: ModelManager.generate goes to the Loader without loading.
manager_generate_direct(S, p) == generate(S, p)

\* ModelManager.generate from its call: load_model unless resident.
manager_generate(S, p) ==
    IF ~is_loaded(S, S.call[p].id) THEN load_model(S, p) ELSE generate(S, p)

\* ModelManager.cancel_download
cancel_download(S, p) ==
    LET id == S.call[p].id
        cancelled == S.active_tasks[id] # None
    IN IF cancelled
       THEN Finish(update_status(cancel(S, id), id, "ERROR", "Cancelled"),
                   p, "true")
       ELSE Finish(S, p, "false")

\* A task suspended on a lock or on the semaphore runs on once the primitive
\* is available.
resume(S, p) ==
    CASE S.pc[p] = "sem_wait" -> download_acquired(S, p)
      [] S.pc[p] = "lock_load" -> load_locked(S, p)
      [] S.pc[p] = "lock_insert" ->
            insert([S EXCEPT !.call[p].loaded_at = None], p, S.call[p].loaded_at)
      [] S.pc[p] = "lock_unload" ->
            ret_unload(unload_locked(S, S.call[p].id), p,
                       is_loaded(S, S.call[p].id))
      [] OTHER -> evict_resumed([S EXCEPT !.loader_lock = Free], p)

LockWaits == {"lock_load", "lock_insert", "lock_unload", "lock_evict"}

Available(S, p) ==
    \/ S.pc[p] = "sem_wait" /\ S.semaphore > 0
    \/ S.pc[p] \in LockWaits /\ S.loader_lock = Free

\* ------------------------------------------------------------- transitions
\* The process was killed: its memory is gone, the file stays as it is.
Down(S) ==
    /\ loaded_models' = << >>
    /\ loader_lock' = Free
    /\ models' = [id \in Models |-> NoRecord]
    /\ semaphore' = max_concurrent
    /\ active_tasks' = [id \in Models |-> None]
    /\ task' = [p \in AllProcs |-> NoTask]
    /\ pc' = [p \in AllProcs |-> "down"]
    /\ call' = [p \in AllProcs |-> NoCall]
    /\ ret' = NoRet
    /\ disk' = S.disk

Become(S) ==
    /\ IF S.crashed THEN Down(S)
       ELSE /\ loaded_models' = S.loaded_models
            /\ loader_lock' = S.loader_lock
            /\ models' = S.models
            /\ semaphore' = S.semaphore
            /\ active_tasks' = S.active_tasks
            /\ task' = S.task
            /\ pc' = S.pc
            /\ call' = S.call
            /\ ret' = S.ret
            /\ disk' = S.disk
    /\ UNCHANGED << procs, ids, max_loaded_models, max_concurrent, now >>

\* ----------------------------------------------------------------- actions
Idle(p) == p \in procs /\ pc[p] = "idle"
ConcModels == 1..(IF NumConcModels < NumModels THEN NumConcModels ELSE NumModels)

Call(op, id) == [NoCall EXCEPT !.op = op, !.id = id]

\* inference_count is unbounded in the code: generate is offered only below
\* the cap.
BelowCap(id) ==
    \A i \in 1..Len(loaded_models) :
        loaded_models[i].model_id = id =>
            loaded_models[i].inference_count < MaxInference

\* datetime.utcnow() moves on between two reads, or does not (a tie).
Tick == now < MaxClock /\ now' = now + 1 /\ UNCHANGED
    << procs, ids, max_loaded_models, max_concurrent, loaded_models, loader_lock,
       models, semaphore, active_tasks, task, pc, call, ret, disk >>

\* Calls of the ModelLoader API.
LoaderLoad(p, id) ==
    Idle(p) /\ Become(load(Enter(State, p, Call("loader_load", id)), p))

LoaderUnload(p, id) ==
    Idle(p) /\ Become(unload(Enter(State, p, Call("loader_unload", id)), p))

LoaderGenerate(p, id) ==
    /\ Idle(p) /\ BelowCap(id)
    /\ Become(generate(Enter(State, p, Call("loader_generate", id)), p))

\* Calls of the ModelDownloader API.
Download(p, id) ==
    /\ Idle(p)
    /\ Become(download(
         [Enter(State, p, Call("download", id))
            EXCEPT !.task[p] = [NoTask EXCEPT !.status = "PENDING"]],
         p))

Cancel(p, id) ==
    /\ Idle(p)
    /\ LET S == Enter(State, p, Call("cancel", id)) IN
       Become(Finish(cancel(S, id), p,
                     IF S.active_tasks[id] # None THEN "true" ELSE "false"))

\* Calls of the ModelManager API.
DownloadModel(p, id, force) ==
    /\ Idle(p)
    /\ Become(download_model(
         Enter(State, p, [Call("download_model", id) EXCEPT !.force = force]),
         p))

LoadModel(p, id) ==
    Idle(p) /\ Become(load_model(Enter(State, p, Call("load_model", id)), p))

UnloadModel(p, id) ==
    Idle(p) /\ Become(unload(Enter(State, p, Call("unload_model", id)), p))

Downloaded(id) == models[id].status \in {"READY", "LOADED"}

HotSwap(p, current_model, new_model) ==
    /\ Idle(p)
    /\ Become(unload(
         Enter(State, p,
               [Call("hot_swap", current_model)
                  EXCEPT !.id2 = new_model,
                         !.pre = /\ is_loaded(State, current_model)
                                 /\ Downloaded(new_model)]), p))

Generate(p, id) ==
    /\ Idle(p) /\ BelowCap(id)
    /\ Become(manager_generate(Enter(State, p, Call("generate", id)), p))

DeleteModel(p, id, files) ==
    /\ Idle(p)
    /\ Become(delete_model(
         Enter(State, p, [Call("delete_model", id) EXCEPT !.files = files]), p))

CancelDownload(p, id) ==
    /\ Idle(p)
    /\ Become(cancel_download(Enter(State, p, Call("cancel_download", id)), p))

\* Threads end; suspended acquisitions succeed.
LoadDone(p, ok) ==
    p \in procs /\ pc[p] = "weights" /\ Become(load_done(State, p, ok))

GenerateDone(p, ok) ==
    p \in procs /\ pc[p] = "infer" /\ Become(generate_done(State, p, ok))

TransferDone(p, ok) ==
    p \in procs /\ pc[p] = "transfer" /\ Become(download_done(State, p, ok))

InfoDone(p, ok) ==
    p \in procs /\ pc[p] = "dl_info" /\ Become(download_model_done(State, p, ok))

Resume(p) ==
    p \in procs /\ Available(State, p) /\ Become(resume(State, p))

\* Calls of the ModelRegistry API, each with the way the file system takes
\* its write.  register and update_status take the records and the status
\* changes the Manager makes.
RegistryRecords == {DownloadingRecord, ReadyRecord}

StatusUpdates ==
    { <<"LOADING", "none">>, <<"LOADED", "none">>, <<"READY", "error">>,
      <<"ERROR", "error">> }

WriteOutcomes == {"ok", "open_fails", "write_fails", "crash"}

RegistryCall(p, op, id, outcome) ==
    [Enter(State, p, Call(op, id)) EXCEPT !.fs = outcome]

Register(p, id, rec, outcome) ==
    /\ Idle(p)
    /\ Become(Finish(register(RegistryCall(p, "register", id, outcome),
                              id, rec),
                     p, "ok"))

UpdateStatus(p, id, status, error_message, outcome) ==
    /\ Idle(p)
    /\ Become(Finish(update_status(
                       RegistryCall(p, "update_status", id, outcome),
                       id, status, error_message),
                     p, "ok"))

Remove(p, id, outcome) ==
    /\ Idle(p)
    /\ Become(Finish(remove(RegistryCall(p, "remove", id, outcome), id),
                     p, IF Known(State, id) THEN "true" ELSE "false"))

CleanupFailed(p, outcome) ==
    /\ Idle(p)
    /\ Become(Finish(cleanup_failed(
                       RegistryCall(p, "cleanup_failed", 0, outcome)),
                     p, ToString(Cardinality(Failed(State)))))

\* Calls of the ModelRegistry API that read the clock for last_used, with
\* any member of ModelStatus and with or without an error text, and the
\* read-only get_model_path.
Members == {"DOWNLOADING", "READY", "LOADING", "LOADED", "ERROR", "DELETED"}

RegistryCallAt(p, op, id) ==
    [RegistryCall(p, op, id, "ok") EXCEPT !.utcnow = now]

UpdateStatusAt(p, id, status, error_message) ==
    /\ Idle(p)
    /\ Become(Finish(update_status(RegistryCallAt(p, "update_status", id),
                                   id, status, error_message),
                     p, "ok"))

GetModelPath(p, id) ==
    /\ Idle(p)
    /\ Become(Finish(Enter(State, p, Call("get_model_path", id)), p,
                     get_model_path(State, id)))

\* The environment: the process is killed between two calls; it is started
\* again and ModelRegistry.__init__ reads the file.
AllDown == \A p \in AllProcs : pc[p] = "down"

Crash ==
    /\ ~AllDown
    /\ Down(State)
    /\ UNCHANGED << procs, ids, max_loaded_models, max_concurrent, now >>

Restarted == [p |-> 0, out |-> "restarted"]

Restart ==
    /\ AllDown
    /\ pc' = [p \in AllProcs |-> "idle"]
    /\ models' = load_registry(disk)
    /\ ret' = Restarted
    /\ UNCHANGED << procs, ids, max_loaded_models, max_concurrent, now,
                    loaded_models, loader_lock, semaphore, active_tasks,
                    task, call, disk >>

\* ---------------------------------------------------------- specifications
InitCommon ==
    /\ semaphore = max_concurrent
    /\ now = 1
    /\ loaded_models = << >>
    /\ loader_lock = Free
    /\ models = [id \in Models |-> NoRecord]
    /\ active_tasks = [id \in Models |-> None]
    /\ task = [p \in AllProcs |-> NoTask]
    /\ pc = [p \in AllProcs |-> "idle"]
    /\ call = [p \in AllProcs |-> NoCall]
    /\ ret = NoRet
    /\ disk = NoFile

\* The ModelLoader alone, its calls issued by concurrent tasks.
NextLoader ==
    \/ Tick
    \/ \E p \in AllProcs, id \in ids : LoaderLoad(p, id)
    \/ \E p \in AllProcs, id \in ids : LoaderUnload(p, id)
    \/ \E p \in AllProcs, id \in ids : LoaderGenerate(p, id)
    \/ \E p \in AllProcs, ok \in BOOLEAN : LoadDone(p, ok)
    \/ \E p \in AllProcs, ok \in BOOLEAN : GenerateDone(p, ok)

InitLoader ==
    /\ procs = 1..NumProcs /\ ids = ConcModels
    /\ max_loaded_models \in 0..MaxCapacity /\ max_concurrent = MaxSlots
    /\ InitCommon
SpecLoader == InitLoader /\ [][NextLoader]_vars

\* The ModelLoader alone, each call issued after the previous one returned.
InitLoaderSeq ==
    /\ procs = {1} /\ ids = Models
    /\ max_loaded_models \in 0..MaxCapacity /\ max_concurrent = MaxSlots
    /\ InitCommon
SpecLoaderSeq == InitLoaderSeq /\ [][NextLoader]_vars

\* The ModelDownloader alone, its calls issued by concurrent tasks.
NextDownloader ==
    \/ \E p \in AllProcs, id \in ids : Download(p, id)
    \/ \E p \in AllProcs, id \in ids : Cancel(p, id)
    \/ \E p \in AllProcs, ok \in BOOLEAN : TransferDone(p, ok)
    \/ \E p \in AllProcs : Resume(p)

InitDownloader ==
    /\ procs = 1..NumDlProcs /\ ids = ConcModels
    /\ max_concurrent \in 1..MaxSlots /\ max_loaded_models = MaxCapacity
    /\ InitCommon
SpecDownloader == InitDownloader /\ [][NextDownloader]_vars

\* The same under the event loop's scheduling: a transfer thread ends, and a
\* task the semaphore wakes gets its slot (asyncio.Semaphore hands a released
\* slot to its waiters in turn).
DownloaderFairness ==
    \A p \in 1..NumDlProcs :
        /\ WF_vars(TransferDone(p, TRUE) \/ TransferDone(p, FALSE))
        /\ SF_vars(Resume(p))
SpecDownloaderFair == SpecDownloader /\ DownloaderFairness

\* The ModelRegistry alone, one caller, over a file system that may refuse
\* a write and a process that may be killed and started again.
NextRegistry ==
    \/ \E p \in AllProcs, id \in ids, rec \in RegistryRecords,
          outcome \in WriteOutcomes : Register(p, id, rec, outcome)
    \/ \E p \in AllProcs, id \in ids, u \in StatusUpdates,
          outcome \in WriteOutcomes : UpdateStatus(p, id, u[1], u[2], outcome)
    \/ \E p \in AllProcs, id \in ids, outcome \in WriteOutcomes :
          Remove(p, id, outcome)
    \/ \E p \in AllProcs, outcome \in WriteOutcomes : CleanupFailed(p, outcome)
    \/ Crash
    \/ Restart

InitRegistry ==
    /\ procs = {1} /\ ids = ConcModels
    /\ max_loaded_models = MaxCapacity /\ max_concurrent = MaxSlots
    /\ InitCommon
SpecRegistry == InitRegistry /\ [][NextRegistry]_vars

\* The ModelRegistry's map operations, one caller, over any map register
\* can have built: every id of the run is unknown or has a record of any
\* status, with or without a directory, an error text and an earlier use.
AnyRecords ==
    [status : Members, local_path : {"", "dir"},
     error_message : {"none", "error"}, last_used : {None, 1}]

NextRegistryMap ==
    \/ \E p \in AllProcs, id \in ids, status \in Members,
          error_message \in {"none", "error"} :
          UpdateStatusAt(p, id, status, error_message)
    \/ \E p \in AllProcs, id \in ids : Remove(p, id, "ok")
    \/ \E p \in AllProcs : CleanupFailed(p, "ok")
    \/ \E p \in AllProcs, id \in ids : GetModelPath(p, id)

InitRegistryMap ==
    /\ procs = {1} /\ ids = ConcModels
    /\ max_loaded_models = MaxCapacity /\ max_concurrent = MaxSlots
    /\ semaphore = max_concurrent
    /\ now = MaxClock
    /\ loaded_models = << >>
    /\ loader_lock = Free
    /\ models \in {m \in [Models -> AnyRecords \cup {NoRecord}] :
                     \A id \in Models \ ids : m[id] = NoRecord}
    /\ active_tasks = [id \in Models |-> None]
    /\ task = [p \in AllProcs |-> NoTask]
    /\ pc = [p \in AllProcs |-> "idle"]
    /\ call = [p \in AllProcs |-> NoCall]
    /\ ret = NoRet
    /\ disk = Snapshot(models)
SpecRegistryMap == InitRegistryMap /\ [][NextRegistryMap]_vars

\* ModelRegistry.__init__ over any registry file: none, a truncated one, or
\* a JSON document whose entries hold a status value of ModelStatus or one
\* that is none ("bogus").  The process starts, registers, may be killed.
FileDicts ==
    [status : StatusValues \cup {"bogus"}, local_path : {"dir"},
     error_message : {"null"}, last_used : {None}]

Files ==
    {NoFile, Truncated} \cup
    {[kind |-> "json", models |-> m] :
        m \in {d \in [Models -> FileDicts \cup {NoDict}] :
                 \A id \in Models \ ConcModels : d[id] = NoDict}}

NextRegistryFile ==
    \/ Restart
    \/ Crash
    \/ \E p \in AllProcs, id \in ids, rec \in RegistryRecords :
          Register(p, id, rec, "ok")

InitRegistryFile ==
    /\ procs = {1} /\ ids = ConcModels
    /\ max_loaded_models = MaxCapacity /\ max_concurrent = MaxSlots
    /\ semaphore = max_concurrent
    /\ now = 1
    /\ loaded_models = << >>
    /\ loader_lock = Free
    /\ models = [id \in Models |-> NoRecord]
    /\ active_tasks = [id \in Models |-> None]
    /\ task = [p \in AllProcs |-> NoTask]
    /\ pc = [p \in AllProcs |-> "down"]
    /\ call = [p \in AllProcs |-> NoCall]
    /\ ret = NoRet
    /\ disk \in Files
SpecRegistryFile == InitRegistryFile /\ [][NextRegistryFile]_vars

\* The ModelManager over its Registry, Downloader and Loader.  The clock is
\* left standing in these runs (every timestamp is a tie): no branch of the
\* Manager reads one.
NextManagerCalls ==
    \/ \E p \in AllProcs, id \in ids, force \in BOOLEAN :
          DownloadModel(p, id, force)
    \/ \E p \in AllProcs, id \in ids : LoadModel(p, id)
    \/ \E p \in AllProcs, id \in ids : UnloadModel(p, id)
    \/ \E p \in AllProcs, id \in ids : Generate(p, id)
    \/ \E p \in AllProcs, id \in ids, files \in {"keep", "delete", "fail"} :
          DeleteModel(p, id, files)
    \/ \E p \in AllProcs, id \in ids : CancelDownload(p, id)
    \/ \E p \in AllProcs, ok \in BOOLEAN : TransferDone(p, ok)
    \/ \E p \in AllProcs, ok \in BOOLEAN : InfoDone(p, ok)
    \/ \E p \in AllProcs, ok \in BOOLEAN : LoadDone(p, ok)
    \/ \E p \in AllProcs, ok \in BOOLEAN : GenerateDone(p, ok)

NextManager ==
    \/ NextManagerCalls
    \/ \E p \in AllProcs : Resume(p)

NextManagerSeq ==
    \/ NextManagerCalls
    \/ \E p \in AllProcs, a \in ids, b \in ids : HotSwap(p, a, b)

\* Calls issued by concurrent tasks (hot_swap, an unload_model followed by a
\* load_model, is left to the sequential runs).
InitManager ==
    /\ procs = 1..NumProcs /\ ids = ConcModels
    /\ max_loaded_models = ConcCapacity /\ max_concurrent = ConcSlots
    /\ InitCommon
SpecManager == InitManager /\ [][NextManager]_vars

\* Each call issued after the previous one returned: with one caller no
\* download waits for a slot, so Resume is no step of these runs.
InitManagerSeq ==
    /\ procs = {1} /\ ids = ConcModels
    /\ max_loaded_models \in 0..MaxCapacity /\ max_concurrent = MaxSlots
    /\ InitCommon
SpecManagerSeq == InitManagerSeq /\ [][NextManagerSeq]_vars

\* The sequential ModelManager in a process that may be stopped and started
\* again: every component is constructed anew, the Registry from its file,
\* the Loader and the Downloader empty.
NextManagerRestart ==
    \/ NextManagerSeq
    \/ Crash
    \/ Restart
SpecManagerRestart == InitManagerSeq /\ [][NextManagerRestart]_vars

\* A task waiting for the Loader's lock never gets it: the only task that
\* keeps the lock across a suspension is one waiting for that same lock
\* inside _evict_if_needed.  Resume is therefore no step of the Loader alone.
LockNeverReleased ==
    /\ loader_lock # Free => pc[loader_lock] = "lock_evict"
    /\ \A p \in procs : pc[p] \in LockWaits => loader_lock # Free

\* ------------------------------------------------------------------ claims
NoInference ==
    \A i \in 1..Len(loaded_models) : loaded_models[i].inference_count = 0

\* The next step of a load in progress.
LoadStep(p) == LoadDone(p, TRUE) \/ LoadDone(p, FALSE) \/ Resume(p)

\* C1: with the calls of load, unload and generate issued one after the
\* other, the index never holds more than max_loaded_models entries.
C1_CapacityInvariant == Len(loaded_models) <= max_loaded_models

\* C1 witness: a load issued with the index full (two entries, capacity 2).
C1_Witness ==
    /\ max_loaded_models = 2 /\ Len(loaded_models) = 2
    /\ call[1].op = "loader_load" /\ ~is_loaded(State, call[1].id)

\* C2: also when loads of distinct ids overlap, a load that returns leaves
\* at most max_loaded_models entries resident.
C2_ConcurrentLoadsWithinCapacity ==
    [][\A p \in procs :
         (call[p].op = "loader_load" /\ ret'.p = p /\ ret'.out = "ok")
         => Len(loaded_models') <= max_loaded_models]_vars

\* C4: with capacity 2, A and B resident and never used, a load of a third
\* model C evicts and runs on: it is never left unable to take a step.
C4_LoadOfThirdCompletes ==
    \A p \in procs :
        ( /\ max_loaded_models = 2 /\ Len(loaded_models) = 2 /\ NoInference
          /\ call[p].op = "loader_load" /\ ~is_loaded(State, call[p].id) )
        => ENABLED LoadStep(p)

\* A download that was cancelled and whose transfer has not ended.
CancelledTransfer(p) == pc[p] = "transfer" /\ task[p].cancel_event

\* C7: a task that cancel marked CANCELLED while its transfer ran keeps the
\* status CANCELLED, however the transfer ends.
C7_CancelledIsFinal ==
    [][\A p \in procs :
         (pc[p] = "transfer" /\ task[p].status = "CANCELLED")
         => task'[p].status = "CANCELLED"]_vars

\* C8: with a download queued on the semaphore, a cancelled download gives
\* its slot up within one step: no step leaves it holding the slot.
C8_CancelFreesSlot ==
    [][\A p \in procs :
         (CancelledTransfer(p) /\ \E q \in procs : pc[q] = "sem_wait")
         => ~CancelledTransfer(p)']_vars

\* --------------------------------------------------------- Manager claims
IsLoaded(id) == is_loaded(State, id)
Status(id) == models[id].status
AllIdle == \A p \in procs : pc[p] = "idle"
DownloadPcs == {"sem_wait", "transfer", "dl_info"}

\* C3: between calls, a record is LOADED exactly when its model is resident.
C3_StatusConsistency ==
    AllIdle => \A id \in ids : (Status(id) = "LOADED") <=> IsLoaded(id)

\* C5: a load_model whose weight load fails re-raises and leaves the record
\* READY; a load_model on the record so left goes to Loader.load, and starts
\* no download.
C5_FailedLoadReverts ==
    [][\A p \in procs, id \in ids :
         /\ (call[p].op = "load_model" /\ call[p].id = id /\ LoadDone(p, FALSE))
            => (ret' = [p |-> p, out |-> "raised"] /\ Status(id)' = "READY")
         /\ (Status(id) = "READY" /\ models[id].error_message = "error"
               /\ LoadModel(p, id))
            => ( /\ pc'[p] \notin DownloadPcs
                 /\ Status(id)' \in {"LOADING", "LOADED", "READY"}
                 /\ semaphore' = semaphore
                 /\ active_tasks' = active_tasks )]_vars

\* C5 witness: a load_model has just raised and left its record READY with
\* the error text.
C5_Witness ==
    /\ ret = [p |-> 1, out |-> "raised"]
    /\ \E id \in ids :
          /\ Status(id) = "READY" /\ models[id].error_message = "error"
          /\ ~IsLoaded(id)

\* C6: a download_model that returns leaves the record READY, and a
\* download_model without force on a READY record returns it with no
\* transfer started and the Registry unchanged.
C6_IdempotentDownload ==
    [][\A p \in procs, id \in ids :
         /\ (call[p].op = "download_model" /\ call[p].id = id
               /\ ret' = [p |-> p, out |-> "ok"])
            => Status(id)' = "READY"
         /\ (Status(id) = "READY" /\ DownloadModel(p, id, FALSE))
            => ( /\ ret' = [p |-> p, out |-> "ok"]
                 /\ pc'[p] = "idle"
                 /\ models' = models
                 /\ semaphore' = semaphore
                 /\ active_tasks' = active_tasks )]_vars

\* C6 witness: a download_model has just returned, its record READY with
\* the files in place.
C6_Witness ==
    /\ ret = [p |-> 1, out |-> "ok"] /\ AllIdle
    /\ \E id \in ids : Status(id) = "READY" /\ models[id].local_path = "dir"
    /\ loaded_models = << >>

\* C9: hot_swap(a, b), a resident and b downloaded, a # b: when it returns a
\* is not resident and b is; when it raises neither is.
HotSwapEnds(p, a, b) ==
    /\ ret'.p = p
    /\ \/ call[p].op = "hot_swap" /\ call[p].id = a /\ call[p].id2 = b
          /\ call[p].pre
       \/ IsLoaded(a) /\ Downloaded(b) /\ HotSwap(p, a, b)

C9_HotSwapOutcomes ==
    [][\A p \in procs, a \in ids, b \in ids :
         (a # b /\ HotSwapEnds(p, a, b))
         => ( /\ ~IsLoaded(a)'
              /\ ret'.out = "ok" => IsLoaded(b)'
              /\ ret'.out = "raised" => ~IsLoaded(b)'
              /\ LoadDone(p, FALSE) => ret'.out = "raised" )]_vars

\* C9 witness: such a hot_swap has unloaded a and is loading b.
C9_Witness ==
    /\ call[1].op = "hot_swap" /\ call[1].pre /\ call[1].id # call[1].id2
    /\ pc[1] = "weights" /\ ~IsLoaded(call[1].id)

\* C10: when a download_model or load_model call ends and no other call on
\* its id is in progress, the record is neither DOWNLOADING nor LOADING.
OtherCallOn(p, id) ==
    \E q \in procs \ {p} :
        call[q].op # "none" /\ (call[q].id = id \/ call[q].id2 = id)

CallEnds(p, id) ==
    /\ ret'.p = p
    /\ \/ call[p].op \in {"download_model", "load_model"} /\ call[p].id = id
       \/ LoadModel(p, id)
       \/ \E force \in BOOLEAN : DownloadModel(p, id, force)

C10_NoStuckTransitionalStatus ==
    [][\A p \in procs, id \in ids :
         \/ Status(id)' \notin {"DOWNLOADING", "LOADING"}
         \/ OtherCallOn(p, id)'
         \/ ~CallEnds(p, id)]_vars

\* C10 witness: a call has just raised on a failure path and the record is
\* ERROR, no call in progress.
C10_Witness ==
    /\ ret.out = "raised" /\ AllIdle
    /\ \E id \in ids : Status(id) = "ERROR" /\ models[id].error_message = "error"

\* ------------------------------------------------------ Downloader claims
\* The downloads past slot acquisition whose transfer has not ended.
InTransfer == {p \in procs : pc[p] = "transfer"}

\* C11: at most max_concurrent downloads are past slot acquisition, and the
\* semaphore counts exactly the slots they leave.
C11_DownloadConcurrencyBound ==
    /\ Cardinality(InTransfer) <= max_concurrent
    /\ semaphore = max_concurrent - Cardinality(InTransfer)

\* C11 witness: every slot held and a further download suspended.
C11_Witness ==
    /\ max_concurrent = 2 /\ Cardinality(InTransfer) = 2
    /\ \E p \in procs : pc[p] = "sem_wait" /\ call[p].op = "download"

\* C12: a transfer that ends, returning or raising, gives its slot back and
\* leaves its task out of the active set; and a download queued on the
\* semaphore starts in the end.
C12_GuaranteedSlotRelease ==
    /\ [][\A p \in procs, ok \in BOOLEAN :
            TransferDone(p, ok)
            => ( /\ semaphore' = semaphore + 1
                 /\ active_tasks'[call[p].id] # p
                 /\ pc'[p] # "transfer" )]_vars
    /\ \A p \in 1..NumDlProcs : (pc[p] = "sem_wait") ~> (pc[p] = "transfer")

\* C12 witness: a transfer has just raised, its slot is free again, and a
\* queued download is about to take it.
C12_Witness ==
    /\ ret.out = "raised" /\ semaphore > 0
    /\ \E p \in procs : pc[p] = "sem_wait"
    /\ \A id \in ids : active_tasks[id] # ret.p

\* -------------------------------------------------------- Registry claims
\* C13: a register whose write fails raises to its caller.
C13_PersistenceFailureSurfaced ==
    [][\A p \in procs, id \in ids, rec \in RegistryRecords,
         outcome \in {"open_fails", "write_fails"} :
         Register(p, id, rec, outcome) => ret'.out = "raised"]_vars

\* C14: when the process is down, the registry file is missing or a whole
\* snapshot, never the truncated text of an interrupted save.
C14_AtomicSnapshotOverwrite == AllDown => disk.kind # "truncated"

\* C15: the map read back from the snapshot of a map is that map, record by
\* record and field by field.
C15_RoundTrip == load_registry(Snapshot(models)) = models

\* C15 witness: the process was started again on a saved file and holds two
\* records, one with an error message and one without.
C15_Witness ==
    /\ ret = Restarted /\ disk = Snapshot(models)
    /\ \E a \in ids, b \in ids :
          /\ models[a].status = "ERROR" /\ models[a].error_message = "error"
          /\ models[b].status = "LOADED" /\ models[b].error_message = "none"

\* C16: register, update_status of a known id, remove of a present id and
\* cleanup_failed with a failed record, the write succeeding, leave the file
\* the snapshot of the map.
Writes(p, outcome) ==
    \/ \E id \in ids, rec \in RegistryRecords :
          models'[id] = rec /\ Register(p, id, rec, outcome)
    \/ \E id \in ids, u \in StatusUpdates :
          /\ Status(id) # "absent" /\ Status(id)' = u[1]
          /\ UpdateStatus(p, id, u[1], u[2], outcome)
    \/ \E id \in ids :
          /\ Status(id) # "absent" /\ Status(id)' = "absent"
          /\ Remove(p, id, outcome)
    \/ /\ \E id \in ids : Status(id) = "ERROR" /\ Status(id)' = "absent"
       /\ CleanupFailed(p, outcome)

FileIsSnapshot == disk = Snapshot(models) /\ load_registry(disk) = models

C16_WriteThrough ==
    [][FileIsSnapshot' \/ \A p \in procs : ~Writes(p, "ok")]_vars

\* C16 witness: an update_status to LOADED has just been written through.
C16_Witness ==
    /\ ret = [p |-> 1, out |-> "ok"] /\ disk = Snapshot(models)
    /\ \E id \in ids : models[id].status = "LOADED"
    /\ \E id \in ids : models[id].status = "absent"

C18_LoadModelSequencing ==
    /\ [](\A p \in procs :
            (call[p].op = "load_model" /\ pc[p] \in {"weights", "lock_evict"})
            => Status(call[p].id) = "LOADING")
    /\ [][\A p \in procs, id \in ids :
            /\ LoadModel(p, id)
               => (~Downloaded(id) <=> pc'[p] \in DownloadPcs)
            /\ (Status(id) # "LOADED" /\ Status(id)' = "LOADED")
               => IsLoaded(id)']_vars

\* C18 witness: load_model of a record left ERROR downloads again.
C18_Witness ==
    /\ call[1].op = "load_model" /\ pc[1] = "transfer"
    /\ models[call[1].id].error_message = "none"
    /\ \E id \in ids : id # call[1].id /\ Status(id) = "LOADED"

\* C19: ModelManager.generate reaches the inference with its model
\* resident, and never ends with the not-loaded error, whatever the other
\* task's calls do in between.
C19_GenerateEnsuresLoaded ==
    /\ [][\A p \in procs :
            (call'[p].op = "generate" /\ pc'[p] = "infer" /\ pc[p] # "infer")
            => \E id \in ids : call'[p].id = id /\ IsLoaded(id)']_vars
    /\ [][\A p \in procs :
            (ret'.out = "not_loaded" /\ ret'.p = p)
            => ~(\/ call[p].op = "generate"
                 \/ \E id \in ids : Generate(p, id))]_vars

\* C19 witness: a generate that had to load is in its inference while the
\* other task is inside a call.
C19_Witness ==
    \E p \in procs, q \in procs :
        /\ call[p].op = "generate" /\ pc[p] = "infer"
        /\ Status(call[p].id) = "LOADED"
        /\ call[q].op \in {"load_model", "unload_model"} /\ pc[q] # "idle"

\* C20: ModelLoader.generate on a non-resident id raises the not-loaded
\* error in the same step and leaves the index as it was.
C20_GenerateNotLoaded ==
    [][\A p \in procs, id \in ids :
         (~IsLoaded(id) /\ LoaderGenerate(p, id))
         => ( /\ ret' = [p |-> p, out |-> "not_loaded"]
              /\ loaded_models' = loaded_models
              /\ pc'[p] = "idle" /\ loader_lock' = loader_lock )]_vars

\* C20 witness: the not-loaded error with another model resident and used.
C20_Witness ==
    /\ ret.out = "not_loaded"
    /\ \E i \in 1..Len(loaded_models) : loaded_models[i].inference_count > 0

\* C21: delete_model, with the calls issued one after the other, unloads a
\* resident model, then deletes the files, then removes the record.  When
\* it returns, the id has no record and is not resident, and the result is
\* false exactly when no record existed; when the file deletion raises, the
\* call raises with the model already unloaded and the Registry as it was.
C21_DeleteOrdering ==
    [][\A p \in procs, id \in ids, files \in {"keep", "delete", "fail"} :
         DeleteModel(p, id, files)
         => /\ ~IsLoaded(id)'
            /\ pc'[p] = "idle" /\ ret'.p = p
            /\ IF files = "fail"
               THEN ret'.out = "raised" /\ models' = models
               ELSE /\ ret'.out = (IF Status(id) = "absent"
                                   THEN "false" ELSE "true")
                    /\ Status(id)' = "absent"
                    /\ \A o \in ids \ {id} : models'[o] = models[o]]_vars

\* C21 witness: a delete_model whose file deletion raised on a loaded model:
\* the model is gone from the Loader and its record is still there.
C21_Witness ==
    /\ ret.out = "raised"
    /\ \E id \in ids : Status(id) = "LOADED" /\ ~IsLoaded(id)

\* C22: unload_model, with the calls issued one after the other: on a
\* resident id it removes the id (and nothing else) from the Loader index,
\* sets the id's Registry status to READY and returns true; on a
\* non-resident id it returns false and changes neither the Loader index
\* nor the Registry nor its file.
C22_UnloadModel ==
    [][\A p \in procs, id \in ids :
         UnloadModel(p, id)
         => /\ pc'[p] = "idle" /\ ret'.p = p
            /\ IF IsLoaded(id)
               THEN /\ ret'.out = "true"
                    /\ ~IsLoaded(id)'
                    /\ Len(loaded_models') = Len(loaded_models) - 1
                    /\ Status(id)' = "READY"
                    /\ \A o \in ids \ {id} :
                          /\ models'[o] = models[o]
                          /\ IsLoaded(o)' = IsLoaded(o)
               ELSE /\ ret'.out = "false"
                    /\ loaded_models' = loaded_models
                    /\ models' = models
                    /\ disk' = disk]_vars

\* C22 witness: unload_model returned true on one of two resident models:
\* the other is still resident and LOADED.
C22_Witness ==
    /\ ret.out = "true"
    /\ \E id \in ids, o \in ids :
          /\ Status(id) = "READY" /\ ~IsLoaded(id)
          /\ Status(o) = "LOADED" /\ IsLoaded(o)

\* C23: ModelLoader.load of a resident id, also with the index full, starts
\* no weight load and no eviction: the index, with every entry's loaded_at,
\* last_used and inference_count, is as it was, and with the lock free the
\* call returns the existing entry in the same step.
C23_LoadResidentIdempotent ==
    [][\A p \in procs, id \in ids :
         (IsLoaded(id) /\ LoaderLoad(p, id))
         => /\ loaded_models' = loaded_models
            /\ loader_lock' = loader_lock
            /\ pc'[p] \in {"idle", "lock_load"}
            /\ loader_lock = Free
                 => (pc'[p] = "idle" /\ ret' = [p |-> p, out |-> "ok"])]_vars

\* C23 witness: a load returned at once with the index full, while the other
\* task runs an inference on the one resident model (its entry still counts
\* that one use).
C23_Witness ==
    \E p \in procs, q \in procs :
        /\ ret = [p |-> p, out |-> "ok"]
        /\ pc[q] = "infer"
        /\ max_loaded_models >= 1
        /\ Len(loaded_models) = max_loaded_models
        /\ \A i \in 1..Len(loaded_models) :
              loaded_models[i].inference_count = 1

\* C24: get_model_path returns the record's path exactly when the id has a
\* record whose status is READY or LOADED; for an unknown id and for a
\* DOWNLOADING, LOADING, ERROR or DELETED record it returns None.  It
\* changes nothing.
C24_PathOnlyWhenUsable ==
    [][\A p \in procs, id \in ids :
         GetModelPath(p, id)
         => /\ ret'.p = p
            /\ Status(id) \in {"READY", "LOADED"}
                 => ret'.out = models[id].local_path
            /\ Status(id) \in {"absent", "DOWNLOADING", "LOADING", "ERROR",
                               "DELETED"}
                 => ret'.out = "None"
            /\ models' = models /\ disk' = disk]_vars

\* C24 witness: None was returned for an id whose record has a directory
\* and is DOWNLOADING.
C24_Witness ==
    /\ ret.out = "None"
    /\ \E id \in ids : /\ Status(id) = "DOWNLOADING"
                       /\ models[id].local_path = "dir"
                       /\ \A o \in ids \ {id} : Status(o) = "READY"

\* C25: right after start-up over a persisted snapshot, with the Loader
\* empty and no operation in flight, no record has status LOADED, LOADING
\* or DOWNLOADING.
C25_StartupConsistency ==
    ret = Restarted
    => \A id \in ids : Status(id) \notin {"LOADED", "LOADING", "DOWNLOADING"}

\* C26: when the transfer of a ModelDownloader.download raises, the task is
\* FAILED with the error text, the exception reaches the caller in that
\* same step, and the call is over: a call enters its transfer only from its
\* start or from its wait for a slot, so the transfer runs once per call.
C26_DownloadFailureSurfaced ==
    [][\A p \in procs :
         /\ (call[p].op = "download" /\ TransferDone(p, FALSE))
            => /\ task'[p].status = "FAILED" /\ task'[p].error = "error"
               /\ ret' = [p |-> p, out |-> "raised"]
               /\ pc'[p] = "idle" /\ call'[p] = NoCall
         /\ (pc'[p] = "transfer" /\ pc[p] # "transfer")
            => pc[p] \in {"idle", "sem_wait"}]_vars

\* C26 witness: a download raised and its task is FAILED with the error,
\* while another download waits for the slot it held.
C26_Witness ==
    \E p \in procs, q \in procs :
        /\ ret = [p |-> p, out |-> "raised"]
        /\ task[p].status = "FAILED" /\ task[p].error = "error"
        /\ pc[q] = "sem_wait"

\* C27: update_status, called in any state of the Registry: on an unknown
\* id it changes neither the map nor the file; on a known id it sets the
\* record's status and error_message to the ones given, sets last_used to
\* the current time exactly when the new status is LOADED, and leaves the
\* record's other fields and every other record as they were.
C27_UpdateStatusFrame ==
    \A p \in procs, id \in ids, status \in Members,
       error_message \in {"none", "error"} :
        Idle(p) =>
        LET T == update_status(RegistryCallAt(p, "update_status", id),
                               id, status, error_message)
        IN /\ \A o \in Models \ {id} : T.models[o] = models[o]
           /\ IF Status(id) = "absent"
              THEN T.models = models /\ T.disk = disk
              ELSE /\ T.models[id].status = status
                   /\ T.models[id].error_message = error_message
                   /\ T.models[id].local_path = models[id].local_path
                   /\ T.models[id].last_used =
                         (IF status = "LOADED" THEN now
                          ELSE models[id].last_used)

\* C27 witness: an update to LOADED took the current time while the other
\* record kept its ERROR status and its earlier last_used.
C27_Witness ==
    /\ ret.out = "ok"
    /\ \E id \in ids, o \in ids :
          /\ Status(id) = "LOADED" /\ models[id].last_used = now
          /\ Status(o) = "ERROR" /\ models[o].last_used = 1 /\ now > 1

\* C28: cleanup_failed removes exactly the records whose status is ERROR,
\* returns their number and leaves every other record as it was;
\* remove(id) on a known id deletes that record only and returns true, and
\* on an unknown id returns false with the map and the file unchanged.
\* Neither touches the Loader.
C28_RemovalFrame ==
    [][\A p \in procs :
         /\ CleanupFailed(p, "ok")
            => /\ models' = [id \in Models |->
                               IF Status(id) = "ERROR" THEN NoRecord
                               ELSE models[id]]
               /\ ret'.out =
                    ToString(Cardinality({id \in ids : Status(id) = "ERROR"}))
               /\ loaded_models' = loaded_models
         /\ \A id \in ids :
              Remove(p, id, "ok")
              => /\ \A o \in Models \ {id} : models'[o] = models[o]
                 /\ loaded_models' = loaded_models
                 /\ IF Status(id) = "absent"
                    THEN /\ ret'.out = "false"
                         /\ models' = models /\ disk' = disk
                    ELSE /\ ret'.out = "true"
                         /\ models'[id] = NoRecord]_vars

\* C28 witness: cleanup_failed returned 1: one record is gone and the
\* other, DOWNLOADING with an error text, is still there.
C28_Witness ==
    /\ ret.out = "1"
    /\ \E id \in ids, o \in ids :
          /\ Status(id) = "absent"
          /\ Status(o) = "DOWNLOADING" /\ models[o].error_message = "error"

\* A file json.load rejects, or one with an entry from_dict rejects.
Unreadable(file) ==
    \/ file.kind = "truncated"
    \/ /\ file.kind = "json"
       /\ \E id \in Models : /\ file.models[id] # NoDict
                              /\ file.models[id].status = "bogus"

\* C29: constructing the Registry over a file that cannot be parsed, or one
\* of whose entries cannot be deserialized, succeeds with an empty map (no
\* record of the file is kept), and a register after it stores its record
\* and writes the file anew.
C29_CorruptFileStartsEmpty ==
    /\ [][(Restart /\ Unreadable(disk))
          => /\ AllIdle'
             /\ \A id \in Models : models'[id] = NoRecord]_vars
    /\ [][\A p \in procs, id \in ids, rec \in RegistryRecords :
            Register(p, id, rec, "ok")
            => /\ models'[id] = rec
               /\ ret' = [p |-> p, out |-> "ok"]
               /\ disk' = Snapshot(models')]_vars

\* C29 witness: the Registry has just been constructed, empty, over a JSON
\* file with one entry that deserializes and one that does not.
C29_Witness ==
    /\ ret = Restarted /\ AllIdle
    /\ \A id \in Models : models[id] = NoRecord
    /\ disk.kind = "json"
    /\ \E id \in ids, o \in ids :
          /\ disk.models[id].status = "bogus"
          /\ disk.models[o].status = "loaded"

\* C30: a load of a non-resident id with the index full (capacity at least
\* 1) evicts and goes on: no task ever waits for the Loader's lock while
\* it holds that lock itself, a wait that no step can end and that keeps
\* every other operation needing the lock waiting too.
C30_LoadAtCapacityTerminates ==
    \A p \in procs :
        (max_loaded_models >= 1 /\ loader_lock = p) => pc[p] \notin LockWaits

\* C31: _evict_if_needed, run by a load of a non-resident id, returns for
\* every capacity and index: the load neither raises before its weight load
\* has started nor is left waiting inside the eviction.
C31_EvictTerminates ==
    [][\A p \in procs, id \in ids :
         LoaderLoad(p, id)
         => (ret'.out # "raised" /\ pc'[p] # "lock_evict")]_vars

C33_GenerateUpdatesUsage ==
    /\ [][\A p \in procs, id \in ids :
            (IsLoaded(id) /\ LoaderGenerate(p, id))
            => LET i == IndexOf(loaded_models, id) IN
               /\ pc'[p] = "infer"
               /\ Len(loaded_models') = Len(loaded_models)
               /\ loaded_models'[i] =
                    [loaded_models[i] EXCEPT
                       !.last_used = now,
                       !.inference_count = loaded_models[i].inference_count + 1]
               /\ \A j \in 1..Len(loaded_models) :
                    j # i => loaded_models'[j] = loaded_models[j]
               /\ ( /\ Len(loaded_models) >= 2
                    /\ \A j \in 1..Len(loaded_models) :
                         j # i => loaded_models[j].last_used < now )
                  => lru_model(loaded_models') # i]_vars
    /\ [][\A p \in procs :
            (pc[p] = "infer" /\ pc'[p] # "infer")
            => loaded_models' = loaded_models]_vars

\* C33 witness: A then B were loaded, A was used later, and the eviction
\* step of the next load has chosen B.
C33_Witness ==
    \E p \in procs :
        /\ pc[p] = "lock_evict" /\ Len(loaded_models) = 2
        /\ loaded_models[1].inference_count = 1
        /\ loaded_models[1].last_used > loaded_models[2].last_used
        /\ call[p].victim = loaded_models[2].model_id

\* C34: a load does not hold the Loader's lock while its weights are
\* loaded: with a weight load in progress and no task stopped inside an
\* eviction, an unload and a load of any id take the lock at once instead
\* of waiting for it.
C34_LockFreeDuringWeightLoad ==
    /\ [](\A p \in procs : pc[p] = "weights" => loader_lock # p)
    /\ [][\A p \in procs, q \in procs, id \in ids :
            ( /\ pc[p] = "weights"
              /\ \A r \in procs : pc[r] # "lock_evict"
              /\ (LoaderUnload(q, id) \/ LoaderLoad(q, id)) )
            => pc'[q] \notin {"lock_load", "lock_unload"}]_vars

\* C34 witness: an unload has just returned true while another task's
\* weight load is in progress.
C34_Witness ==
    \E p \in procs, q \in procs :
        /\ pc[p] = "weights" /\ call[p].op = "loader_load"
        /\ ret = [p |-> q, out |-> "true"]

\* C35: every download that holds a slot and whose transfer has not ended
\* is the task _active_tasks holds for its model id, so get_active_downloads
\* reports it and cancel(id) reaches it.
C35_InFlightIsActive ==
    \A p \in procs :
        pc[p] = "transfer" => active_tasks[LoadId(State, p)] = p

\* C36: overlapping loads of one non-resident id are deduplicated: at no
\* time are two weight loads of the same id in progress.
C36_SameIdLoadsDeduplicated ==
    \A p \in procs, q \in procs :
        (p # q /\ pc[p] = "weights" /\ pc[q] = "weights")
        => LoadId(State, p) # LoadId(State, q)

\* C37: a load_model called while the record of its id is LOADING starts no
\* download: it does not replace the record by the DOWNLOADING placeholder.
C37_NoDownloadWhileLoading ==
    [][\A p \in procs, id \in ids :
         ~( /\ Status(id) = "LOADING"
            /\ Status(id)' = "DOWNLOADING"
            /\ LoadModel(p, id) )]_vars

\* C38: download_model without force on a resident model whose record is
\* LOADED starts no transfer and leaves the record as it is.
C38_NoDownloadOfLoaded ==
    [][\A p \in procs, id \in ids :
         ~( /\ Status(id) = "LOADED" /\ IsLoaded(id)
            /\ models'[id] # models[id]
            /\ DownloadModel(p, id, FALSE) )]_vars

\* C39: a generate in its inference keeps a LoadedModel that unload has not
\* released: no unload or eviction of the id deletes the model and the
\* tokenizer the inference and the decoding after it read.
C39_GenerateHandleNotFreed ==
    \A p \in procs : pc[p] = "infer" => call[p].handle # "freed"

\* C40: once cancel_download has left the record of an id ERROR with the
\* message "Cancelled", the download_model call that owned the transfer
\* does not register the id as READY: the record does not go from there
\* straight to the READY record of a finished download.
C40_CancelledNotReady ==
    [][\A id \in ids :
         ~( /\ Status(id) = "ERROR"
            /\ models[id].error_message = "Cancelled"
            /\ models'[id] = ReadyRecord )]_vars

====
